---- MODULE Spec2Model ----
(***************************************************************************)
(* Founder burnout game: the game-balance engine (server gameLogic.js and  *)
(* geminiService.js, the process-round handler) and the browser client     *)
(* with its offline simulator.                                             *)
(*                                                                         *)
(* Numbers.  JavaScript numbers are modelled as exact decimals in fixed    *)
(* point: one meter point is U units.  Every coefficient of the code       *)
(* (0.15, 0.2, 0.1, 0.08, 0.05, the industry and tech multipliers, 0.5,    *)
(* 0.25, 0.3, 0.12) then yields whole units, so no division below rounds.  *)
(* Scores are carried in half points (a score of 65 is 130), so that a     *)
(* non-integer score such as 65.5 can be an output of the primary model.   *)
(* The values undefined, null and NaN are three reserved integers, and     *)
(* every arithmetic step goes through operators that treat them the way    *)
(* JavaScript does.                                                        *)
(***************************************************************************)
EXTENDS Integers, Sequences, FiniteSets, TLC

VARIABLES gameState, screen, submitDisabled, inflight, endingTimer,
          server, lastRound, probe

vars == <<gameState, screen, submitDisabled, inflight, endingTimer,
          server, lastRound, probe>>

----------------------------------------------------------------------------
(* JavaScript values *)

\* the result of arithmetic on undefined
NaN == 0 - 999999999

\* JSON null (what JSON.stringify makes of NaN)
Null == 0 - 999999998

\* a missing property
Undef == 0 - 999999997

\* units per meter point
U == 8 * 25000

IsNumber(x) == x # NaN /\ x # Null /\ x # Undef

ToNumber(x) == IF x = Undef THEN NaN ELSE IF x = Null THEN 0 ELSE x

JsAdd(a, b) ==
  IF ToNumber(a) = NaN \/ ToNumber(b) = NaN THEN NaN ELSE ToNumber(a) + ToNumber(b)

JsSub(a, b) ==
  IF ToNumber(a) = NaN \/ ToNumber(b) = NaN THEN NaN ELSE ToNumber(a) - ToNumber(b)

\* a * (num / den), den dividing a * num
JsMul(a, num, den) ==
  IF ToNumber(a) = NaN THEN NaN ELSE (ToNumber(a) * num) \div den

JsGt(a, b) == ToNumber(a) # NaN /\ ToNumber(b) # NaN /\ ToNumber(a) > ToNumber(b)

JsLt(a, b) == ToNumber(a) # NaN /\ ToNumber(b) # NaN /\ ToNumber(a) < ToNumber(b)

MathMin(a, b) ==
  IF ToNumber(a) = NaN \/ ToNumber(b) = NaN THEN NaN
  ELSE IF ToNumber(a) < ToNumber(b) THEN ToNumber(a) ELSE ToNumber(b)

MathMax(a, b) ==
  IF ToNumber(a) = NaN \/ ToNumber(b) = NaN THEN NaN
  ELSE IF ToNumber(a) > ToNumber(b) THEN ToNumber(a) ELSE ToNumber(b)

\* x || 0
OrZero(x) == IF IsNumber(x) THEN x ELSE 0

\* JSON.stringify then JSON.parse of a number-valued property
Json(x) == IF x = NaN THEN Null ELSE x

clampValue(num, min, max) == MathMax(min, MathMin(max, num))

----------------------------------------------------------------------------
(* Static tables *)

Channels == {"growth", "ethics", "burnout", "pr", "funding"}

Actions == {"Build", "PR", "Growth Hack", "Fundraise", "Refactor", "Hire"}

Traits == {"Ambition", "Integrity", "Resilience", "Charisma", "Critical Thinking"}

Industries == {"Healthcare", "Software", "Finance", "Electronics"}

Techs == {"Software", "AI/Automation", "Physical Product"}

actionEffects ==
  [ Build |-> [growth |-> 5, ethics |-> 2, burnout |-> 8, pr |-> -2, funding |-> -3],
    PR |-> [growth |-> 2, ethics |-> -1, burnout |-> 3, pr |-> 12, funding |-> 3],
    GrowthHack |-> [growth |-> 15, ethics |-> -8, burnout |-> 10, pr |-> -5, funding |-> 5],
    Fundraise |-> [growth |-> -2, ethics |-> 0, burnout |-> 5, pr |-> 8, funding |-> 12],
    Refactor |-> [growth |-> -5, ethics |-> 5, burnout |-> -8, pr |-> -3, funding |-> -5],
    Hire |-> [growth |-> 3, ethics |-> 3, burnout |-> -12, pr |-> 2, funding |-> -15] ]

\* actionEffects[action] ?? actionEffects['Build'], in units
baseEffects(action) ==
  LET row == CASE action = "PR" -> actionEffects.PR
               [] action = "Growth Hack" -> actionEffects.GrowthHack
               [] action = "Fundraise" -> actionEffects.Fundraise
               [] action = "Refactor" -> actionEffects.Refactor
               [] action = "Hire" -> actionEffects.Hire
               [] OTHER -> actionEffects.Build
  IN [k \in Channels |-> row[k] * U]

\* client copy, part_000 lines 720-729
actionEffectsLocal ==
  [ Build |-> [growth |-> 5, ethics |-> 2, burnout |-> 8, pr |-> -2, funding |-> -3],
    PR |-> [growth |-> 2, ethics |-> -1, burnout |-> 3, pr |-> 12, funding |-> 3],
    GrowthHack |-> [growth |-> 15, ethics |-> -8, burnout |-> 10, pr |-> -5, funding |-> 5],
    Fundraise |-> [growth |-> -2, ethics |-> 0, burnout |-> 5, pr |-> 8, funding |-> 12],
    Refactor |-> [growth |-> -5, ethics |-> 5, burnout |-> -8, pr |-> -3, funding |-> -5],
    Hire |-> [growth |-> 3, ethics |-> 3, burnout |-> -12, pr |-> 2, funding |-> -15] ]

baseEffectsLocal(action) ==
  LET row == CASE action = "PR" -> actionEffectsLocal.PR
               [] action = "Growth Hack" -> actionEffectsLocal.GrowthHack
               [] action = "Fundraise" -> actionEffectsLocal.Fundraise
               [] action = "Refactor" -> actionEffectsLocal.Refactor
               [] action = "Hire" -> actionEffectsLocal.Hire
               [] OTHER -> actionEffectsLocal.Build
  IN [k \in Channels |-> row[k] * U]

\* multipliers in hundredths
getIndustryModifiers(industry) ==
  CASE industry = "Healthcare" -> [growth |-> 90, ethics_risk |-> 60, pr |-> 90, funding |-> 100]
    [] industry = "Finance" -> [growth |-> 100, ethics_risk |-> 120, pr |-> 100, funding |-> 110]
    [] industry = "Electronics" -> [growth |-> 110, ethics_risk |-> 100, pr |-> 100, funding |-> 100]
    [] OTHER -> [growth |-> 100, ethics_risk |-> 100, pr |-> 100, funding |-> 100]

getTechModifiers(tech) ==
  CASE tech = "AI/Automation" -> [growth |-> 100, ethics_risk |-> 120, pr |-> 115, funding |-> 100]
    [] tech = "Physical Product" -> [growth |-> 90, ethics_risk |-> 100, pr |-> 110, funding |-> 95]
    [] OTHER -> [growth |-> 100, ethics_risk |-> 100, pr |-> 100, funding |-> 100]

\* client copies, part_000 lines 962-979
getIndustryModifiersLocal(industry) ==
  CASE industry = "Healthcare" -> [growth |-> 90, ethics_risk |-> 60, pr |-> 90, funding |-> 100]
    [] industry = "Finance" -> [growth |-> 100, ethics_risk |-> 120, pr |-> 100, funding |-> 110]
    [] industry = "Electronics" -> [growth |-> 110, ethics_risk |-> 100, pr |-> 100, funding |-> 100]
    [] OTHER -> [growth |-> 100, ethics_risk |-> 100, pr |-> 100, funding |-> 100]

getTechModifiersLocal(tech) ==
  CASE tech = "AI/Automation" -> [growth |-> 100, ethics_risk |-> 120, pr |-> 115, funding |-> 100]
    [] tech = "Physical Product" -> [growth |-> 90, ethics_risk |-> 100, pr |-> 110, funding |-> 95]
    [] OTHER -> [growth |-> 100, ethics_risk |-> 100, pr |-> 100, funding |-> 100]

\* d *= a * b, a and b in hundredths
Scale(d, a, b) == (((d \div 100) * (a * b))) \div 100

\* a membership test that looks at the head of the list only
includesFirst(traits, t) == Len(traits) > 0 /\ traits[1] = t

includes(traits, t) == \E i \in DOMAIN traits : traits[i] = t

----------------------------------------------------------------------------
(* Delta engine: server (gameLogic.js) *)

\* the score modifier without its offset: score * coef
ScoreTermNoOffset(score2, off, coef) ==
  IF ToNumber(score2) = NaN THEN NaN
  ELSE (ToNumber(score2) * coef * (U \div 2000))

\* (score - off) * coef, score in half points, coef in thousandths
ScoreTerm(score2, off, coef) ==
  IF ToNumber(score2) = NaN THEN NaN
  ELSE ((ToNumber(score2) - 2 * off) * coef * (U \div 2000))

\* base effects plus NLP modifiers that count a heuristic sentiment as neutral
nlpDeltasBySource(nlp, action) ==
  LET b == baseEffects(action)
      sentiment == IF nlp.source = "heuristic" THEN 100 ELSE nlp.sentiment
  IN [ growth |-> JsAdd(b.growth, ScoreTerm(sentiment, 50, 150)),
       pr |-> JsAdd(b.pr, ScoreTerm(sentiment, 50, 200)),
       ethics |-> JsSub(b.ethics, ScoreTerm(nlp.buzzword, 50, 100)),
       funding |-> JsAdd(b.funding, ScoreTerm(nlp.feasibility, 20, 80)),
       burnout |-> JsAdd(b.burnout,
                         IF ToNumber(nlp.feasibility) = NaN THEN NaN
                         ELSE (200 - ToNumber(nlp.feasibility)) * 50 * (U \div 2000)) ]

\* lines 21-41: base effects plus the NLP modifiers
nlpDeltas(nlp, action) ==
  LET b == baseEffects(action)
  IN [ growth |-> JsAdd(b.growth, ScoreTerm(nlp.sentiment, 50, 150)),
       pr |-> JsAdd(b.pr, ScoreTerm(nlp.sentiment, 50, 200)),
       ethics |-> JsSub(b.ethics, ScoreTerm(nlp.buzzword, 50, 100)),
       funding |-> JsAdd(b.funding, ScoreTerm(nlp.feasibility, 20, 80)),
       burnout |-> JsAdd(b.burnout,
                         IF ToNumber(nlp.feasibility) = NaN THEN NaN
                         ELSE (200 - ToNumber(nlp.feasibility)) * 50 * (U \div 2000)) ]

\* lines 44-51: industry and tech multipliers, one direction only
modDeltas(d, company) ==
  LET i == getIndustryModifiers(company.industry)
      t == getTechModifiers(company.tech)
  IN [ growth |-> IF JsGt(d.growth, 0) THEN Scale(d.growth, i.growth, t.growth) ELSE d.growth,
       ethics |-> IF JsLt(d.ethics, 0) THEN Scale(d.ethics, i.ethics_risk, t.ethics_risk) ELSE d.ethics,
       pr |-> IF JsGt(d.pr, 0) THEN Scale(d.pr, i.pr, t.pr) ELSE d.pr,
       funding |-> IF JsGt(d.funding, 0) THEN Scale(d.funding, i.funding, t.funding) ELSE d.funding,
       burnout |-> d.burnout ]

\* lines 54-57
traitAmbition(d, action, traits) ==
  IF includes(traits, "Ambition")
  THEN [d EXCEPT !.pr = IF action \in {"PR", "Fundraise"} THEN JsAdd(@, 5 * U) ELSE @,
                 !.burnout = JsAdd(@, U)]
  ELSE d

\* lines 58-61 (server): halves a negative ethics delta, and taxes Growth Hack PR
traitIntegrity(d, action, traits) ==
  IF includes(traits, "Integrity")
  THEN [d EXCEPT !.ethics = IF JsLt(@, 0) THEN @ \div 2 ELSE @,
                 !.pr = IF action = "Growth Hack" THEN JsSub(@, 2 * U) ELSE @]
  ELSE d

\* lines 750-752 (client): halves a negative ethics delta only
traitIntegrityLocal(d, action, traits) ==
  IF includes(traits, "Integrity") /\ JsLt(d.ethics, 0)
  THEN [d EXCEPT !.ethics = @ \div 2]
  ELSE d

\* lines 62-64
traitResilience(d, traits) ==
  IF includes(traits, "Resilience") THEN [d EXCEPT !.burnout = JsSub(@, 6 * U)] ELSE d

\* lines 65-67
traitCharisma(d, action, traits) ==
  IF includes(traits, "Charisma") /\ action = "Fundraise"
  THEN [d EXCEPT !.funding = JsAdd(@, 5 * U)]
  ELSE d

\* lines 68-70: deltas.feasibility = Math.min(100, feasibility * 1.1)
traitCriticalThinking(d, nlp, traits) ==
  IF includes(traits, "Critical Thinking")
  THEN [k \in DOMAIN d \cup {"feasibility"} |->
          IF k = "feasibility"
          THEN MathMin(100 * U, JsMul(nlp.feasibility, 11 * (U \div 20), 1))
          ELSE d[k]]
  ELSE d

computeDeltas(nlp, action, gs) ==
  traitCriticalThinking(
    traitCharisma(
      traitResilience(
        traitIntegrity(
          traitAmbition(modDeltas(nlpDeltas(nlp, action), gs.company), action, gs.traits),
          action, gs.traits),
        gs.traits),
      action, gs.traits),
    nlp, gs.traits)

----------------------------------------------------------------------------
(* Delta engine: client (part_000 computeDeltasLocally) *)

\* part_000 lines 729-736
nlpDeltasLocal(nlp, action) ==
  LET b == baseEffectsLocal(action)
  IN [ growth |-> JsAdd(b.growth, ScoreTerm(nlp.sentiment, 50, 150)),
       pr |-> JsAdd(b.pr, ScoreTerm(nlp.sentiment, 50, 200)),
       ethics |-> JsSub(b.ethics, ScoreTerm(nlp.buzzword, 50, 100)),
       funding |-> JsAdd(b.funding, ScoreTerm(nlp.feasibility, 20, 80)),
       burnout |-> JsAdd(b.burnout,
                         IF ToNumber(nlp.feasibility) = NaN THEN NaN
                         ELSE (200 - ToNumber(nlp.feasibility)) * 50 * (U \div 2000)) ]

\* part_000 lines 738-744
modDeltasLocal(d, company) ==
  LET i == getIndustryModifiersLocal(company.industry)
      t == getTechModifiersLocal(company.tech)
  IN [ growth |-> IF JsGt(d.growth, 0) THEN Scale(d.growth, i.growth, t.growth) ELSE d.growth,
       ethics |-> IF JsLt(d.ethics, 0) THEN Scale(d.ethics, i.ethics_risk, t.ethics_risk) ELSE d.ethics,
       pr |-> IF JsGt(d.pr, 0) THEN Scale(d.pr, i.pr, t.pr) ELSE d.pr,
       funding |-> IF JsGt(d.funding, 0) THEN Scale(d.funding, i.funding, t.funding) ELSE d.funding,
       burnout |-> d.burnout ]

\* part_000 lines 746-749
traitAmbitionLocal(d, action, traits) ==
  IF includes(traits, "Ambition")
  THEN [d EXCEPT !.pr = IF action \in {"PR", "Fundraise"} THEN JsAdd(@, 5 * U) ELSE @,
                 !.burnout = JsAdd(@, U)]
  ELSE d

\* part_000 lines 753-755
traitResilienceLocal(d, traits) ==
  IF includes(traits, "Resilience") THEN [d EXCEPT !.burnout = JsSub(@, 6 * U)] ELSE d

\* part_000 lines 756-758
traitCharismaLocal(d, action, traits) ==
  IF includes(traits, "Charisma") /\ action = "Fundraise"
  THEN [d EXCEPT !.funding = JsAdd(@, 5 * U)]
  ELSE d

\* part_000 lines 716-761: no Critical Thinking branch
computeDeltasLocally(nlp, action, gs) ==
  traitCharismaLocal(
    traitResilienceLocal(
      traitIntegrityLocal(
        traitAmbitionLocal(modDeltasLocal(nlpDeltasLocal(nlp, action), gs.company),
                           action, gs.traits),
        action, gs.traits),
      gs.traits),
    action, gs.traits)

----------------------------------------------------------------------------
(* Meter applier *)

\* for (key in deltas) newMeters[key] = max(0, min(100, newMeters[key] + deltas[key]))
applyDeltas(deltas, gs) ==
  [k \in DOMAIN gs.meters \cup DOMAIN deltas |->
     IF k \in DOMAIN deltas
     THEN clampValue(JsAdd(IF k \in DOMAIN gs.meters THEN gs.meters[k] ELSE Undef,
                           deltas[k]), 0, 100 * U)
     ELSE gs.meters[k]]

applyDeltasLocally(deltas, gs) ==
  [k \in DOMAIN gs.meters \cup DOMAIN deltas |->
     IF k \in DOMAIN deltas
     THEN clampValue(JsAdd(IF k \in DOMAIN gs.meters THEN gs.meters[k] ELSE Undef,
                           deltas[k]), 0, 100 * U)
     ELSE gs.meters[k]]

----------------------------------------------------------------------------
(* Ending evaluator *)

\* gameLogic.js checkEnding lines 101-132: the endings of a finished game
finalEnding(meters) ==
  IF JsGt(meters.growth, 80 * U) /\ JsGt(meters.ethics, 50 * U)
     /\ JsLt(meters.burnout, 30 * U) THEN "IPO Success"
  ELSE IF JsGt(meters.funding, 80 * U) /\ JsLt(meters.ethics, 40 * U) THEN "Acquisition"
  ELSE IF JsGt(meters.ethics, 80 * U) /\ JsLt(meters.burnout, 40 * U)
          /\ JsLt(meters.growth, 70 * U) THEN "Pivot to Wellness"
  ELSE IF JsLt(meters.pr, 10 * U) /\ JsLt(meters.ethics, 30 * U) THEN "Infamy"
  ELSE "Stable Mediocrity"

\* checkEnding with the funding test ahead of the burnout test
checkEndingFundingFirst(meters, round) ==
  IF JsLt(meters.funding, 0) THEN "Bankruptcy"
  ELSE IF JsGt(meters.burnout, 80 * U) THEN "Collapse"
  ELSE IF round < 26 THEN "none"
  ELSE finalEnding(meters)

\* checkEnding without the round gate
checkEndingNoGate(meters, round) ==
  IF JsGt(meters.burnout, 80 * U) THEN "Collapse"
  ELSE IF JsLt(meters.funding, 0) THEN "Bankruptcy"
  ELSE finalEnding(meters)

\* checkEnding with the gate one round later, as if it were handed state.round
checkEndingLateGate(meters, round) ==
  IF JsGt(meters.burnout, 80 * U) THEN "Collapse"
  ELSE IF JsLt(meters.funding, 0) THEN "Bankruptcy"
  ELSE IF round < 27 THEN "none"
  ELSE finalEnding(meters)

\* gameLogic.js checkEnding: the title of the ending, or "none" for null
checkEnding(meters, round) ==
  IF JsGt(meters.burnout, 80 * U) THEN "Collapse"
  ELSE IF JsLt(meters.funding, 0) THEN "Bankruptcy"
  ELSE IF round < 26 THEN "none"
  ELSE finalEnding(meters)

\* part_000 checkEndingLocally lines 928-959
finalEndingLocally(meters) ==
  IF JsGt(meters.growth, 80 * U) /\ JsGt(meters.ethics, 50 * U)
     /\ JsLt(meters.burnout, 30 * U) THEN "IPO Success"
  ELSE IF JsGt(meters.funding, 80 * U) /\ JsLt(meters.ethics, 40 * U) THEN "Acquisition"
  ELSE IF JsGt(meters.ethics, 80 * U) /\ JsLt(meters.burnout, 40 * U)
          /\ JsLt(meters.growth, 70 * U) THEN "Pivot to Wellness"
  ELSE IF JsLt(meters.pr, 10 * U) /\ JsLt(meters.ethics, 30 * U) THEN "Infamy"
  ELSE "Stable Mediocrity"

\* client copy, part_000 lines 912-960
checkEndingLocally(meters, round) ==
  IF JsGt(meters.burnout, 80 * U) THEN "Collapse"
  ELSE IF JsLt(meters.funding, 0) THEN "Bankruptcy"
  ELSE IF round < 26 THEN "none"
  ELSE finalEndingLocally(meters)

----------------------------------------------------------------------------
(* Scoring: the heuristics.  A text is what the heuristics read of it: its  *)
(* length, the matches of the server's and of the client's jargon regex     *)
(* (the client's list has one word more, so it matches at least as often)   *)
(* and whether it holds a numeral.                                          *)

\* update texts (trimmed) and what the heuristics read of each: its length,
\* the matches of the server's and of the client's jargon regex, a numeral
Texts == {"plain"}

TextInfo(text) ==
  CASE text = "plain" -> [len |-> 70, buzz |-> 0, buzzLocal |-> 0, hasNumbers |-> FALSE]
    [] text = "hype" -> [len |-> 280, buzz |-> 3, buzzLocal |-> 4, hasNumbers |-> TRUE]
    [] text = "viral" -> [len |-> 140, buzz |-> 1, buzzLocal |-> 2, hasNumbers |-> FALSE]
    [] OTHER -> [len |-> 0, buzz |-> 0, buzzLocal |-> 0, hasNumbers |-> FALSE]

\* Math.round(35 + Math.min(len / 280, 1) * 40), in half points
lengthSentiment(len) ==
  2 * (IF len >= 280 THEN 75 ELSE 35 + ((2 * len + 7) \div 14))

Min2(a, b) == IF a < b THEN a ELSE b

Max2(a, b) == IF a > b THEN a ELSE b

\* the server heuristic computed with the constants of the client's scorer
heuristicScoresLocalConstants(t) ==
  [ kind |-> "object",
    sentiment |-> lengthSentiment(t.len),
    buzzword |-> 2 * Min2(20 + t.buzz * 15, 90),
    feasibility |-> 2 * Max2(30, Min2(95, (IF t.hasNumbers THEN 72 ELSE 58) - t.buzz * 6)),
    source |-> "heuristic" ]

\* geminiService.js heuristicScores lines 95-101, on what it reads of the text
heuristicScoresOf(t) ==
  [ kind |-> "object",
    sentiment |-> lengthSentiment(t.len),
    buzzword |-> 2 * Min2(20 + t.buzz * 15, 85),
    feasibility |-> 2 * Min2(Max2(30, IF t.hasNumbers THEN 70 - t.buzz * 5
                                                    ELSE 55 - t.buzz * 10), 95),
    source |-> "heuristic" ]

\* geminiService.js heuristicScores
heuristicScores(text) == heuristicScoresOf(TextInfo(text))

\* the offline scorer handing out the server heuristic's triple and tag
analyzeUpdateLocallyAsServer(text) == heuristicScores(text)

\* part_000 analyzeUpdateLocally, with the source simulateOfflineRound sets
analyzeUpdateLocally(text) ==
  LET t == TextInfo(text)
  IN [ kind |-> "object",
       sentiment |-> lengthSentiment(t.len),
       buzzword |-> 2 * Min2(20 + t.buzzLocal * 15, 90),
       feasibility |-> 2 * Max2(30, Min2(95, (IF t.hasNumbers THEN 72 ELSE 58)
                                             - t.buzzLocal * 6)),
       source |-> "offline" ]

----------------------------------------------------------------------------
(* Scoring: analyzeUpdate.  The primary model's answer is an input: the     *)
(* call throws, or its text is not JSON, or it parses to null, a number, an *)
(* array, or an object holding whatever scores the model wrote.             *)

\* process.env.GEMINI_ALLOW_FALLBACK !== 'false'
shouldAllowFallback(srv) == srv.allowFallback

NoScores(kind, source) ==
  [kind |-> kind, sentiment |-> Undef, buzzword |-> Undef, feasibility |-> Undef,
   source |-> source]

\* analyzeUpdate without its catch block: an error of the model call escapes
analyzeUpdateNoCatch(text, gemini, srv) ==
  IF ~srv.modelAvailable
  THEN (IF ~shouldAllowFallback(srv)
        THEN [thrown |-> TRUE, value |-> NoScores("null", "none")]
        ELSE [thrown |-> FALSE, value |-> heuristicScores(text)])
  ELSE IF gemini.kind \in {"throw", "notjson"}
  THEN [thrown |-> TRUE, value |-> NoScores("null", "none")]
  ELSE [thrown |-> FALSE,
        value |-> CASE gemini.kind = "null" -> NoScores("null", "none")
                    [] gemini.kind = "number" -> NoScores("number", "none")
                    [] gemini.kind = "array" -> NoScores("array", "gemini")
                    [] OTHER -> [kind |-> "object", sentiment |-> gemini.sentiment,
                                 buzzword |-> gemini.buzzword,
                                 feasibility |-> gemini.feasibility,
                                 source |-> "gemini"]]

\* geminiService.js analyzeUpdate lines 285-309: [thrown, value]
analyzeUpdate(text, gemini, srv) ==
  IF ~srv.modelAvailable \/ gemini.kind \in {"throw", "notjson"}
  THEN (IF ~shouldAllowFallback(srv)
        THEN [thrown |-> TRUE, value |-> NoScores("null", "none")]
        ELSE [thrown |-> FALSE, value |-> heuristicScores(text)])
  ELSE [thrown |-> FALSE,
        value |-> CASE gemini.kind = "null" -> NoScores("null", "none")
                    [] gemini.kind = "number" -> NoScores("number", "none")
                    [] gemini.kind = "array" -> NoScores("array", "gemini")
                    [] OTHER -> [kind |-> "object", sentiment |-> gemini.sentiment,
                                 buzzword |-> gemini.buzzword,
                                 feasibility |-> gemini.feasibility,
                                 source |-> "gemini"]]

----------------------------------------------------------------------------
(* Narrative state machine *)

Tracks == <<"product", "funding", "team">>

\* getDefaultNarrative / createDefaultNarrative: milestones by id -> stage
getDefaultNarrative ==
  [ npc |-> [vcMood |-> 0, employeeMorale |-> 0],
    milestones |-> [product |-> 0, funding |-> 0, team |-> 0],
    sceneLog |-> <<>> ]

\* the first n entries of a sequence: slice(0, n)
SliceFirst(seq, n) ==
  IF Len(seq) <= n THEN seq ELSE SubSeq(seq, 1, n)

\* the last n entries of a sequence: slice(-n)
SliceLast(seq, n) ==
  IF Len(seq) <= n THEN seq ELSE SubSeq(seq, Len(seq) - n + 1, Len(seq))

\* geminiService.js normalizeNarrative: stage kept, scene log cut to 12
normalizeNarrative(narrative) ==
  [narrative EXCEPT !.sceneLog = SliceLast(@, 12)]

\* geminiService.js lines 194-213: the threshold of one stage of one track
milestoneRule(id, stage, meters, action) ==
  CASE id = "product" /\ stage = 1 -> JsGt(meters.growth, 45 * U) \/ action = "Build"
    [] id = "product" /\ stage = 2 -> JsGt(meters.growth, 60 * U) /\ JsGt(meters.pr, 20 * U)
    [] id = "product" /\ stage = 3 -> JsGt(meters.growth, 75 * U) /\ JsGt(meters.funding, 60 * U)
    [] id = "funding" /\ stage = 1 -> JsGt(meters.funding, 55 * U) \/ action = "Fundraise"
    [] id = "funding" /\ stage = 2 -> JsGt(meters.funding, 70 * U) /\ JsGt(meters.pr, 25 * U)
    [] id = "funding" /\ stage = 3 -> JsGt(meters.funding, 85 * U) /\ JsGt(meters.pr, 35 * U)
    [] id = "team" /\ stage = 1 -> JsLt(meters.burnout, 55 * U) \/ action = "Hire"
                                     \/ action = "Refactor"
    [] id = "team" /\ stage = 2 -> JsLt(meters.burnout, 40 * U) /\ JsGt(meters.ethics, 55 * U)
    [] id = "team" /\ stage = 3 -> JsLt(meters.burnout, 32 * U) /\ JsGt(meters.growth, 60 * U)
    [] OTHER -> FALSE

\* the stage worked out from the thresholds alone, not from the stage reached
newStageFromZero(id, previousStage, meters, action) ==
  LET s1 == IF 0 < 1 /\ milestoneRule(id, 1, meters, action) THEN 1 ELSE 0
      s2 == IF s1 < 2 /\ milestoneRule(id, 2, meters, action) THEN 2 ELSE s1
      s3 == IF s2 < 3 /\ milestoneRule(id, 3, meters, action) THEN 3 ELSE s2
  IN s3

\* the switch of updateNarrativeState, one track: the stage only rises
newStage(id, previousStage, meters, action) ==
  LET s1 == IF previousStage < 1 /\ milestoneRule(id, 1, meters, action) THEN 1 ELSE previousStage
      s2 == IF s1 < 2 /\ milestoneRule(id, 2, meters, action) THEN 2 ELSE s1
      s3 == IF s2 < 3 /\ milestoneRule(id, 3, meters, action) THEN 3 ELSE s2
  IN s3

\* (x || 0) * (num / 100)
Part(x, num) == (OrZero(x) * num) \div 100

\* the two mood indices, lines 177-187
updateMoods(npc, deltas, nlp) ==
  LET sentimentShift == ScoreTerm(nlp.sentiment, 50, 50)
  IN [ vcMood |-> clampValue(
                    JsAdd(OrZero(npc.vcMood) + Part(deltas.funding, 25) + Part(deltas.pr, 15),
                          sentimentShift), -10 * U, 10 * U),
       employeeMorale |-> clampValue(
                    JsAdd(OrZero(npc.employeeMorale) - Part(deltas.burnout, 30)
                            + Part(deltas.ethics, 12),
                          sentimentShift), -10 * U, 10 * U) ]

\* part_000 lines 796-815: the threshold of one stage of one track
milestoneRuleLocal(id, stage, meters, action) ==
  CASE id = "product" /\ stage = 1 -> JsGt(meters.growth, 45 * U) \/ action = "Build"
    [] id = "product" /\ stage = 2 -> JsGt(meters.growth, 60 * U) /\ JsGt(meters.pr, 20 * U)
    [] id = "product" /\ stage = 3 -> JsGt(meters.growth, 75 * U) /\ JsGt(meters.funding, 60 * U)
    [] id = "funding" /\ stage = 1 -> JsGt(meters.funding, 55 * U) \/ action = "Fundraise"
    [] id = "funding" /\ stage = 2 -> JsGt(meters.funding, 70 * U) /\ JsGt(meters.pr, 25 * U)
    [] id = "funding" /\ stage = 3 -> JsGt(meters.funding, 85 * U) /\ JsGt(meters.pr, 35 * U)
    [] id = "team" /\ stage = 1 -> JsLt(meters.burnout, 55 * U) \/ action = "Hire"
                                     \/ action = "Refactor"
    [] id = "team" /\ stage = 2 -> JsLt(meters.burnout, 40 * U) /\ JsGt(meters.ethics, 55 * U)
    [] id = "team" /\ stage = 3 -> JsLt(meters.burnout, 32 * U) /\ JsGt(meters.growth, 60 * U)
    [] OTHER -> FALSE

\* the switch of updateNarrativeStateLocal, one track
newStageLocal(id, previousStage, meters, action) ==
  LET s1 == IF previousStage < 1 /\ milestoneRuleLocal(id, 1, meters, action) THEN 1 ELSE previousStage
      s2 == IF s1 < 2 /\ milestoneRuleLocal(id, 2, meters, action) THEN 2 ELSE s1
      s3 == IF s2 < 3 /\ milestoneRuleLocal(id, 3, meters, action) THEN 3 ELSE s2
  IN s3

\* the two mood indices, client copy (part_000 lines 780-789)
updateMoodsLocal(npc, deltas, nlp) ==
  LET sentimentShift == ScoreTerm(nlp.sentiment, 50, 50)
  IN [ vcMood |-> clampValue(
                    JsAdd(OrZero(npc.vcMood) + Part(deltas.funding, 25) + Part(deltas.pr, 15),
                          sentimentShift), -10 * U, 10 * U),
       employeeMorale |-> clampValue(
                    JsAdd(OrZero(npc.employeeMorale) - Part(deltas.burnout, 30)
                            + Part(deltas.ethics, 12),
                          sentimentShift), -10 * U, 10 * U) ]

\* a changes list with an entry for every track that stands above stage 0
stageChangesAboveZero(before, after) ==
  LET ch(i) == IF after[Tracks[i]] > 0
               THEN << [id |-> Tracks[i], stage |-> after[Tracks[i]],
                        previousStage |-> before[Tracks[i]]] >>
               ELSE <<>>
  IN ch(1) \o ch(2) \o ch(3)

\* the changes list: one entry per track whose stage rose, in track order
stageChanges(before, after) ==
  LET ch(i) == IF after[Tracks[i]] > before[Tracks[i]]
               THEN << [id |-> Tracks[i], stage |-> after[Tracks[i]],
                        previousStage |-> before[Tracks[i]]] >>
               ELSE <<>>
  IN ch(1) \o ch(2) \o ch(3)

\* geminiService.js updateNarrativeState: [narrative, changes]
updateNarrativeState(prevNarrative, deltas, meters, action, nlp) ==
  LET n == normalizeNarrative(prevNarrative)
      ms == [id \in {"product", "funding", "team"} |->
               newStage(id, n.milestones[id], meters, action)]
  IN [ narrative |-> [n EXCEPT !.npc = updateMoods(n.npc, deltas, nlp),
                               !.milestones = ms],
       changes |-> stageChanges(n.milestones, ms) ]

\* part_000 updateNarrativeStateLocal: the same rules on a deep copy, no cut
updateNarrativeStateLocal(prevNarrative, deltas, meters, action, nlp) ==
  LET ms == [id \in {"product", "funding", "team"} |->
               newStageLocal(id, prevNarrative.milestones[id], meters, action)]
  IN [ narrative |-> [prevNarrative EXCEPT !.npc = updateMoodsLocal(prevNarrative.npc, deltas, nlp),
                                           !.milestones = ms],
       changes |-> stageChanges(prevNarrative.milestones, ms) ]

----------------------------------------------------------------------------
(* Server: POST /api/process-round *)

\* what res.json / JSON.parse make of a record of numbers
JsonRec(r) == [k \in DOMAIN r |-> Json(r[k])]

\* the opaque scene card of one round: who wrote it, and for which round
SceneCard(source, round) == [source |-> source, round |-> round]

\* the handler's catch is reached: analyzeUpdate throws, computeDeltas
\* destructures null, or a later generator throws
roundThrows(text, srv, gemini, genThrows) ==
  LET a == analyzeUpdate(text, gemini, srv)
  IN a.thrown \/ a.value.kind = "null" \/ genThrows

\* part_002 lines 23-130.  gemini: the primary model's analysis answer;
\* genThrows: a later generator call fails with fallback disallowed;
\* npcNull: the NPC model answers the JSON text null.
processRound(text, action, gs, srv, gemini, genThrows, npcNull) ==
  LET a == analyzeUpdate(text, gemini, srv)
  IN IF roundThrows(text, srv, gemini, genThrows)
     THEN [ok |-> FALSE]
     ELSE
       LET nlp == a.value
           deltas == computeDeltas(nlp, action, gs)
           newMeters == applyDeltas(deltas, gs)
           newRound == gs.round + 1
           ending == checkEnding(newMeters, newRound)
           un == updateNarrativeState(gs.narrative, deltas, newMeters, action, nlp)
           card == SceneCard(IF srv.modelAvailable THEN "gemini" ELSE "heuristic", gs.round)
           narrative == [un.narrative EXCEPT
                           !.npc = JsonRec(@),
                           !.sceneLog = SliceLast(Append(@, card), 12)]
       IN [ ok |-> TRUE,
            nlp |-> nlp,
            deltas |-> JsonRec(deltas),
            analysisSource |-> IF nlp.source = "none" THEN "unknown" ELSE nlp.source,
            sceneCard |-> card,
            milestoneEvents |-> un.changes,
            newState |-> [gs EXCEPT !.round = newRound,
                                    !.meters = JsonRec(newMeters),
                                    !.narrative = narrative],
            narrative |-> narrative,
            npcNull |-> npcNull,
            ending |-> ending ]

----------------------------------------------------------------------------
(* Client: offline simulator *)

\* part_000 cloneState: the six copied fields; lastAction is not among them
cloneState(state) == [state EXCEPT !.lastAction = "none"]

\* part_000 simulateOfflineRound
simulateOfflineRound(text, action, currentState) ==
  LET stateSnapshot == cloneState(currentState)
      nlp == analyzeUpdateLocally(text)
      deltas == computeDeltasLocally(nlp, action, stateSnapshot)
      newMeters == applyDeltasLocally(deltas, stateSnapshot)
      newRound == stateSnapshot.round + 1
      ending == checkEndingLocally(newMeters, newRound)
      un == updateNarrativeStateLocal(stateSnapshot.narrative, deltas, newMeters, action, nlp)
      card == SceneCard("offline", stateSnapshot.round)
      narrative == [un.narrative EXCEPT !.sceneLog = SliceLast(Append(@, card), 12)]
  IN [ ok |-> TRUE,
       nlp |-> nlp,
       deltas |-> deltas,
       analysisSource |-> nlp.source,
       sceneCard |-> card,
       milestoneEvents |-> un.changes,
       newState |-> [stateSnapshot EXCEPT !.round = newRound,
                                          !.meters = newMeters,
                                          !.narrative = narrative],
       narrative |-> narrative,
       npcNull |-> FALSE,
       ending |-> ending ]

----------------------------------------------------------------------------
(* Client: meters and random events *)

\* part_000 updateStat: the value the meter gets
updateStat(value) == clampValue(OrZero(value), 0, 100 * U)

\* part_000 updateMeters: the five configured keys, numbers only
updateMeters(current, meters) ==
  [k \in DOMAIN current |->
     IF k \in Channels /\ k \in DOMAIN meters /\ IsNumber(meters[k])
     THEN updateStat(meters[k]) ELSE current[k]]

RANDOM_EVENTS ==
  << [title |-> "Influencer shout-out", effects |-> [growth |-> 6, pr |-> 8, funding |-> 4]],
     [title |-> "Production fire drill", effects |-> [growth |-> -4, burnout |-> 10, pr |-> -3]],
     [title |-> "Team offsite breakthrough", effects |-> [burnout |-> -12, ethics |-> 5]],
     [title |-> "Regulatory scare", effects |-> [ethics |-> -8, funding |-> -5, pr |-> -4]],
     [title |-> "Enterprise pilot", effects |-> [funding |-> 12, growth |-> 5, burnout |-> 3]],
     [title |-> "Culture hero moment", effects |-> [burnout |-> -8, ethics |-> 4]] >>

\* part_000 applyEffects: target = (meters[key] ?? 0) + delta, through updateStat
applyEffects(meters, effects) ==
  [k \in DOMAIN meters |->
     IF k \in DOMAIN effects /\ k \in Channels
     THEN updateStat((IF IsNumber(meters[k]) THEN meters[k] ELSE 0) + effects[k] * U)
     ELSE meters[k]]

\* a random event whose effects are applied a second time
maybeTriggerRandomEventTwice(gs, event) ==
  IF gs.round >= 26 \/ event = 0 THEN gs
  ELSE LET m == applyEffects(applyEffects(gs.meters, RANDOM_EVENTS[event].effects),
                             RANDOM_EVENTS[event].effects)
           n == Len(gs.history)
       IN [gs EXCEPT !.meters = m,
                     !.history = IF n = 0 THEN @
                                 ELSE [@ EXCEPT ![n].randomEvent = RANDOM_EVENTS[event].title,
                                                ![n].meters = m]]

\* part_000 maybeTriggerRandomEvent: event is 0 (none drawn) or an index of the table
maybeTriggerRandomEvent(gs, event) ==
  IF gs.round >= 26 \/ event = 0 THEN gs
  ELSE LET m == applyEffects(gs.meters, RANDOM_EVENTS[event].effects)
           n == Len(gs.history)
       IN [gs EXCEPT !.meters = m,
                     !.history = IF n = 0 THEN @
                                 ELSE [@ EXCEPT ![n].randomEvent = RANDOM_EVENTS[event].title,
                                                ![n].meters = m]]

----------------------------------------------------------------------------
(* Client: the page's state machine *)

DefaultMeters ==
  [growth |-> 35 * U, ethics |-> 60 * U, burnout |-> 25 * U, pr |-> 10 * U, funding |-> 50 * U]

\* the gameState literal at load and in the restart handler
DefaultState ==
  [ round |-> 1,
    company |-> [name |-> "", industry |-> "Software", tech |-> "Software"],
    traits |-> <<>>,
    meters |-> DefaultMeters,
    history |-> <<>>,
    narrative |-> getDefaultNarrative,
    lastAction |-> "none" ]

\* rounds a game of the model is played for
MaxRound == 2

\* showEnding timers pending at once
MaxTimers == 1

\* the setup form's choices explored
Setups ==
  { [company |-> [name |-> "StartupCo", industry |-> "Software", tech |-> "Software"],
     traits |-> <<"Ambition", "Integrity">>],
    [company |-> [name |-> "StartupCo", industry |-> "Healthcare", tech |-> "AI/Automation"],
     traits |-> <<"Resilience", "Critical Thinking">>] }

GameActions == {"Growth Hack", "Hire"}

Answer(kind, s, b, f) == [kind |-> kind, sentiment |-> s, buzzword |-> b, feasibility |-> f]

\* answers of the models explored in the game.  analysis: the prompt's
\* example scores, an object without sentiment, or a feasibility far out
\* of range; npcNull: the NPC model answers the JSON text null
GameAnswers ==
  { [analysis |-> Answer("object", 130, 60, 160), npcNull |-> FALSE],
    [analysis |-> Answer("object", Undef, 60, 160), npcNull |-> FALSE],
    [analysis |-> Answer("object", 130, 60, -2000), npcNull |-> FALSE],
    [analysis |-> Answer("object", 130, 60, 160), npcNull |-> TRUE] }

\* Math.random draws explored: no event, or the event of that index
EventDraws == {0, 2}

\* what the submit handler run of the last step did, for the properties
NoRound ==
  [ outcome |-> "none", path |-> "none", cause |-> "none", source |-> "none",
    ending |-> "none", event |-> 0 ]

Init ==
  /\ gameState = DefaultState
  /\ screen = "setup"
  /\ submitDisabled = FALSE
  /\ inflight = <<>>
  /\ endingTimer = 0
  /\ server \in [modelAvailable : BOOLEAN, allowFallback : BOOLEAN]
  /\ lastRound = NoRound
  /\ probe = <<>>

\* startGame click, lines 110-128 (exactly two traits ticked)
StartGame ==
  /\ screen = "setup"
  /\ \E s \in Setups :
       gameState' = [gameState EXCEPT !.company = s.company, !.traits = s.traits]
  /\ screen' = "game"
  /\ lastRound' = NoRound
  /\ UNCHANGED <<submitDisabled, inflight, endingTimer, server, probe>>

\* the validation returns placed after the lastAction assignment of line 175
SubmitRejectedAfterAssign ==
  /\ screen = "game" /\ ~submitDisabled
  /\ \E text \in Texts \cup {""}, action \in GameActions \cup {"none"} :
       /\ text = "" \/ action = "none"
       /\ gameState' = [gameState EXCEPT !.lastAction = action]
       /\ lastRound' = [NoRound EXCEPT !.outcome = "rejected"]
  /\ UNCHANGED <<screen, submitDisabled, inflight, endingTimer, server, probe>>

\* submitRound click, lines 160-172: empty text or no action chosen
SubmitRejected ==
  /\ screen = "game" /\ ~submitDisabled
  /\ \E text \in Texts \cup {""}, action \in GameActions \cup {"none"} :
       /\ text = "" \/ action = "none"
       /\ lastRound' = [NoRound EXCEPT !.outcome = "rejected"]
  /\ UNCHANGED <<gameState, screen, submitDisabled, inflight, endingTimer, server, probe>>

\* the submit handler without line 180: the button is never disabled
SubmitRoundButtonEnabled ==
  /\ screen = "game"
  /\ gameState.round <= MaxRound
  /\ \E text \in Texts, action \in GameActions :
       /\ gameState' = [gameState EXCEPT !.lastAction = action]
       /\ inflight' = Append(inflight, [text |-> text, action |-> action,
                                        body |-> gameState',
                                        lastActionBefore |-> gameState.lastAction])
  /\ submitDisabled' = FALSE
  /\ lastRound' = NoRound
  /\ UNCHANGED <<screen, endingTimer, server, probe>>

\* submitRound click, lines 160-184, up to the fetch of requestServerRound
SubmitRound ==
  /\ screen = "game" /\ ~submitDisabled
  /\ gameState.round <= MaxRound
  /\ \E text \in Texts, action \in GameActions :
       /\ gameState' = [gameState EXCEPT !.lastAction = action]
       /\ inflight' = Append(inflight, [text |-> text, action |-> action,
                                        body |-> gameState',
                                        lastActionBefore |-> gameState.lastAction])
  /\ submitDisabled' = TRUE
  /\ lastRound' = NoRound
  /\ UNCHANGED <<screen, endingTimer, server, probe>>

\* lines 193-210: the result becomes the state, one record is pushed
commitResult(result, text, action) ==
  LET gs1 == [result.newState EXCEPT !.narrative = result.narrative]
      rec == [ round |-> gs1.round - 1, text |-> text, action |-> action,
               sentiment |-> result.nlp.sentiment, buzzword |-> result.nlp.buzzword,
               feasibility |-> result.nlp.feasibility,
               analysisSource |-> result.analysisSource,
               meters |-> gs1.meters, randomEvent |-> "none" ]
  IN [gs1 EXCEPT !.history = Append(@, rec),
                 !.meters = updateMeters(gs1.meters, gs1.meters)]

\* lines 185-244 after the await: commit, UI, random event, ending timer,
\* or the catch branch when updateNPCs meets npcLines = null
Continue(req, result, path, cause, event) ==
  LET gs2 == commitResult(result, req.text, req.action)
      failed == result.npcNull
      gs3 == IF ~failed /\ result.ending = "none"
             THEN maybeTriggerRandomEvent(gs2, event) ELSE gs2
  IN /\ (~failed /\ result.ending # "none") => endingTimer < MaxTimers
     /\ gameState' = gs3
     /\ endingTimer' = IF ~failed /\ result.ending # "none"
                        THEN endingTimer + 1 ELSE endingTimer
     /\ lastRound' = [ outcome |-> IF failed THEN "failed" ELSE "committed",
                        path |-> path, cause |-> cause,
                        source |-> result.analysisSource,
                        ending |-> result.ending,
                        event |-> IF gs3 = gs2 THEN 0 ELSE event ]
     /\ submitDisabled' = FALSE
     /\ inflight' = Tail(inflight)
     /\ UNCHANGED <<screen, server, probe>>

\* the server answers 200 and the handler runs to its end
ServerRound ==
  /\ inflight # <<>>
  /\ \E gemini \in GameAnswers, event \in EventDraws :
       LET req == inflight[1]
           result == processRound(req.text, req.action, req.body, server,
                                  gemini.analysis, FALSE, gemini.npcNull)
       IN /\ gemini.npcNull => server.modelAvailable
          /\ result.ok
          /\ (gemini.npcNull \/ result.ending # "none") => event = 0
          /\ Continue(req, result, "server", "none", event)

\* the request fails (network, or the server's catch answers 500) and
\* processRound falls back to simulateOfflineRound on the current gameState
OfflineRound ==
  /\ inflight # <<>>
  /\ \E cause \in {"network", "http500"}, event \in EventDraws :
       LET req == inflight[1]
           result == simulateOfflineRound(req.text, req.action, gameState)
       IN /\ cause = "http500" =>
               \E gemini \in GameAnswers, genThrows \in BOOLEAN :
                  /\ genThrows => (server.modelAvailable /\ ~server.allowFallback)
                  /\ roundThrows(req.text, server, gemini.analysis, genThrows)
          /\ result.ending # "none" => event = 0
          /\ Continue(req, result, "offline", cause, event)

\* the setTimeout of line 235 fires
ShowEnding ==
  /\ endingTimer > 0
  /\ endingTimer' = endingTimer - 1
  /\ screen' = "ending"
  /\ lastRound' = NoRound
  /\ UNCHANGED <<gameState, submitDisabled, inflight, server, probe>>

\* restart click, lines 610-635
Restart ==
  /\ screen = "ending"
  /\ gameState' = DefaultState
  /\ screen' = "setup"
  /\ lastRound' = NoRound
  /\ UNCHANGED <<submitDisabled, inflight, endingTimer, server, probe>>

Next ==
  \/ StartGame
  \/ SubmitRejected
  \/ SubmitRound
  \/ ServerRound
  \/ OfflineRound
  \/ ShowEnding
  \/ Restart

Spec == Init /\ [][Next]_vars

----------------------------------------------------------------------------
(* The engine's functions on their own.  An input is drawn into probe, one  *)
(* step applies the function; the page and the server stand still.          *)

Idle ==
  /\ gameState = DefaultState
  /\ screen = "setup"
  /\ submitDisabled = FALSE
  /\ inflight = <<>>
  /\ endingTimer = 0
  /\ server = [modelAvailable |-> TRUE, allowFallback |-> TRUE]
  /\ lastRound = NoRound

\* score triples a scorer may return, in half points: integers of [0,100]
ProbeScores ==
  { [kind |-> "object", sentiment |-> s, buzzword |-> b, feasibility |-> f, source |-> "gemini"] :
      s \in {0, 130, 200}, b \in {60, 200}, f \in {0, 160} }

ProbeCompanies ==
  { [name |-> "StartupCo", industry |-> i, tech |-> t] :
      i \in Industries, t \in {"Software", "AI/Automation"} }

\* the setup form lets exactly two traits be ticked
TraitPairs == { <<a, b>> : a \in Traits, b \in Traits } \ { <<a, a>> : a \in Traits }

ProbeMeters ==
  { DefaultMeters,
    [growth |-> 0, ethics |-> 0, burnout |-> 0, pr |-> 0, funding |-> 0],
    [growth |-> 100 * U, ethics |-> 100 * U, burnout |-> 100 * U, pr |-> 100 * U,
     funding |-> 100 * U] }

\* sentiment 70, buzzword 80, feasibility 40, in half points
ExampleScores ==
  [kind |-> "object", sentiment |-> 140, buzzword |-> 160, feasibility |-> 80, source |-> "gemini"]

\* trait lists a request body may carry: none, one trait, or the form's two
ProbeTraits == {<<>>} \cup { <<a>> : a \in Traits } \cup TraitPairs

InitDeltas ==
  /\ Idle
  /\ probe \in [ phase : {"in"}, nlp : ProbeScores \cup {ExampleScores}, action : Actions,
                 company : ProbeCompanies, traits : ProbeTraits, meters : ProbeMeters ]

\* the server's and the client's delta engine and meter applier on one input
ApplyDeltasStep ==
  /\ probe.phase = "in"
  /\ LET gs == [DefaultState EXCEPT !.company = probe.company, !.traits = probe.traits,
                                    !.meters = probe.meters]
         deltas == computeDeltas(probe.nlp, probe.action, gs)
         local == computeDeltasLocally(probe.nlp, probe.action, gs)
     IN probe' = [ phase |-> "deltas", nlp |-> probe.nlp, action |-> probe.action,
                   company |-> probe.company, traits |-> probe.traits,
                   meters |-> probe.meters,
                   deltas |-> deltas, newMeters |-> applyDeltas(deltas, gs),
                   deltasLocal |-> local, newMetersLocal |-> applyDeltasLocally(local, gs) ]
  /\ UNCHANGED <<gameState, screen, submitDisabled, inflight, endingTimer, server, lastRound>>

NextDeltas == ApplyDeltasStep

SpecDeltas == InitDeltas /\ [][NextDeltas]_vars

\* meter values on both sides of every threshold of checkEnding, in points
EndingMeters ==
  [ growth : {69 * U, 70 * U, 80 * U, 81 * U},
    ethics : {29 * U, 30 * U, 39 * U, 40 * U, 50 * U, 51 * U, 80 * U, 81 * U},
    burnout : {29 * U, 30 * U, 39 * U, 40 * U, 80 * U, 81 * U, 85 * U},
    pr : {9 * U, 10 * U},
    funding : {(0 - 5) * U, 0, 80 * U, 81 * U} ]

EndingRounds == {1, 10, 25, 26, 27}

InitEnding ==
  /\ Idle
  /\ probe \in [ phase : {"in"}, meters : EndingMeters, round : EndingRounds ]

CheckEndingStep ==
  /\ probe.phase = "in"
  /\ probe' = [ phase |-> "ending", meters |-> probe.meters, round |-> probe.round,
                ending |-> checkEnding(probe.meters, probe.round),
                endingLocal |-> checkEndingLocally(probe.meters, probe.round) ]
  /\ UNCHANGED <<gameState, screen, submitDisabled, inflight, endingTimer, server, lastRound>>

NextEnding == CheckEndingStep

SpecEnding == InitEnding /\ [][NextEnding]_vars

ProbeTexts == {"plain", "hype", "viral", ""}

\* outputs of the primary model: the call fails, text that is not JSON, the
\* JSON values null, a number, an array, and objects: the prompt's example,
\* one without sentiment, a score of 65.5, a feasibility of -1000, a
\* buzzword of 150, a sentiment of null
ProbeAnswers ==
  { Answer("throw", Undef, Undef, Undef),
    Answer("notjson", Undef, Undef, Undef),
    Answer("null", Undef, Undef, Undef),
    Answer("number", Undef, Undef, Undef),
    Answer("array", Undef, Undef, Undef),
    Answer("object", 130, 60, 160),
    Answer("object", Undef, 60, 160),
    Answer("object", 131, 60, 160),
    Answer("object", 130, 60, -2000),
    Answer("object", 130, 300, 160),
    Answer("object", Null, 60, 160) }

InitAnalyze ==
  /\ Idle
  /\ probe \in [ phase : {"in"}, text : ProbeTexts, gemini : ProbeAnswers,
                 srv : [modelAvailable : BOOLEAN, allowFallback : BOOLEAN] ]

AnalyzeStep ==
  /\ probe.phase = "in"
  /\ probe' = [ phase |-> "analyzed", text |-> probe.text, gemini |-> probe.gemini,
                srv |-> probe.srv,
                result |-> analyzeUpdate(probe.text, probe.gemini, probe.srv),
                aborted |-> roundThrows(probe.text, probe.srv, probe.gemini, FALSE) ]
  /\ UNCHANGED <<gameState, screen, submitDisabled, inflight, endingTimer, server, lastRound>>

NextAnalyze == AnalyzeStep

SpecAnalyze == InitAnalyze /\ [][NextAnalyze]_vars

----------------------------------------------------------------------------
(* Properties *)

\* a score in half points is an integer of [0,100]
IsScore(x) == IsNumber(x) /\ x % 2 = 0 /\ 0 <= x /\ x <= 200

\* C1: after any sequence of resolved rounds (server or offline) and random
\* events, each of the five meters of the client's game state is a number
\* in [0,100]
C1_MetersInRange ==
  \A k \in Channels :
    /\ k \in DOMAIN gameState.meters
    /\ IsNumber(gameState.meters[k])
    /\ 0 <= gameState.meters[k] /\ gameState.meters[k] <= 100 * U

\* C2: for every meter set and every deltas object computeDeltas returns,
\* applyDeltas returns exactly the five channels, each equal to
\* clamp(meters[k] + deltas[k], 0, 100)
C2_FiveChannelsClamped ==
  probe.phase = "deltas" =>
    /\ DOMAIN probe.newMeters = Channels
    /\ \A k \in Channels :
         LET sum == probe.meters[k] + probe.deltas[k]
         IN /\ probe.newMeters[k] =
                 (IF sum < 0 THEN 0 ELSE IF sum > 100 * U THEN 100 * U ELSE sum)
            /\ 0 <= probe.newMeters[k] /\ probe.newMeters[k] <= 100 * U

\* C3: within one game (a restart aside), on the server path and on the
\* offline path, no milestone track's stage decreases from one state to the
\* next, and every stage stays in {0,1,2,3}
C3_StagesMonotone ==
  [][ \/ (screen = "ending" /\ screen' = "setup")
      \/ \A id \in {"product", "funding", "team"} :
           /\ gameState'.narrative.milestones[id] >= gameState.narrative.milestones[id]
           /\ gameState'.narrative.milestones[id] \in 0..3 ]_vars

\* a later round of a game whose meters no longer meet a threshold met before:
\* the team track stands at a stage its rule would not grant now
C3_Witness ==
  /\ Len(gameState.history) >= 2
  /\ lastRound.outcome = "committed"
  /\ \E id \in {"product", "funding", "team"} :
       /\ gameState.narrative.milestones[id] >= 1
       /\ newStage(id, 0, gameState.history[Len(gameState.history)].meters,
                   gameState.history[Len(gameState.history)].action)
            < gameState.narrative.milestones[id]

\* C4: checkEnding (and the client's checkEndingLocally) returns the first
\* matching entry of the eight-rule priority list; Collapse wins over
\* Bankruptcy and the round gate, Acquisition over Infamy, and from round 26
\* on the result is never none
C4_EndingPriority ==
  probe.phase = "ending" =>
    LET m == probe.meters
        rules == << [when |-> m.burnout > 80 * U, title |-> "Collapse"],
                    [when |-> m.funding < 0, title |-> "Bankruptcy"],
                    [when |-> probe.round < 26, title |-> "none"],
                    [when |-> m.growth > 80 * U /\ m.ethics > 50 * U /\ m.burnout < 30 * U,
                     title |-> "IPO Success"],
                    [when |-> m.funding > 80 * U /\ m.ethics < 40 * U, title |-> "Acquisition"],
                    [when |-> m.ethics > 80 * U /\ m.burnout < 40 * U /\ m.growth < 70 * U,
                     title |-> "Pivot to Wellness"],
                    [when |-> m.pr < 10 * U /\ m.ethics < 30 * U, title |-> "Infamy"],
                    [when |-> TRUE, title |-> "Stable Mediocrity"] >>
        first == CHOOSE i \in 1..8 : rules[i].when /\ \A j \in 1..(i - 1) : ~rules[j].when
    IN /\ probe.ending = rules[first].title
       /\ probe.endingLocal = rules[first].title
       /\ (rules[1].when => probe.ending = "Collapse")
       /\ (rules[5].when /\ rules[7].when /\ first >= 5 => probe.ending = "Acquisition")
       /\ (probe.round >= 26 => probe.ending # "none")

\* burnout=85, funding=-5, round=1 has been evaluated
C4_Witness ==
  /\ probe.phase = "ending"
  /\ probe.meters.burnout = 85 * U /\ probe.meters.funding = (0 - 5) * U
  /\ probe.round = 1
  /\ probe.ending = "Collapse"

\* C5: for every round < 26 and every meter set with burnout <= 80 and
\* funding >= 0, checkEnding returns none, whatever the other meters are
C5_RoundGate ==
  (/\ probe.phase = "ending"
   /\ probe.round < 26
   /\ probe.meters.burnout <= 80 * U
   /\ probe.meters.funding >= 0) => probe.ending = "none"

\* round 10 with meters that meet the IPO Success thresholds
C5_Witness ==
  /\ probe.phase = "ending"
  /\ probe.round = 10
  /\ probe.meters.growth = 81 * U /\ probe.meters.ethics = 51 * U
  /\ probe.meters.burnout = 29 * U /\ probe.meters.funding = 81 * U
  /\ probe.ending = "none"

\* the primary scoring path is unavailable or raises an error
PrimaryFails == ~probe.srv.modelAvailable \/ probe.gemini.kind \in {"throw", "notjson"}

HeuristicTriple ==
  /\ ~probe.result.thrown
  /\ probe.result.value.source = "heuristic"
  /\ IsScore(probe.result.value.sentiment)
  /\ IsScore(probe.result.value.buzzword)
  /\ IsScore(probe.result.value.feasibility)

C7_ScoresAreIntegers ==
  (probe.phase = "analyzed" /\ ~probe.result.thrown) =>
    /\ probe.result.value.kind = "object"
    /\ IsScore(probe.result.value.sentiment)
    /\ IsScore(probe.result.value.buzzword)
    /\ IsScore(probe.result.value.feasibility)

\* C8: when the server request of a valid submission fails (network error,
\* non-2xx status), the client resolves the round offline: a complete result
\* is committed, the state's round is the round it had before the commit plus
\* exactly 1, and the result is tagged 'offline'
C8_OfflineResolves ==
  [][ (inflight # <<>> /\ lastRound'.path = "offline") =>
        /\ lastRound'.outcome = "committed"
        /\ lastRound'.source = "offline"
        /\ gameState'.round = gameState.round + 1
        /\ Len(gameState'.history) = Len(gameState.history) + 1
        /\ LET rec == gameState'.history[Len(gameState'.history)]
           IN /\ rec.round = gameState.round
              /\ rec.text = inflight[1].text /\ rec.action = inflight[1].action
              /\ rec.analysisSource = "offline"
              /\ IsScore(rec.sentiment) /\ IsScore(rec.buzzword) /\ IsScore(rec.feasibility)
        /\ \A k \in Channels : IsNumber(gameState'.meters[k]) ]_vars

\* the server answered 500 in the second round and the round was resolved offline
C8_Witness ==
  /\ lastRound.path = "offline" /\ lastRound.cause = "http500"
  /\ lastRound.outcome = "committed" /\ lastRound.source = "offline"
  /\ gameState.round = 3

\* C9: for every score triple, action, trait set and company profile,
\* computeDeltasLocally returns the same deltas as computeDeltas, and so the
\* same new meters
C9_LocalEqualsServer ==
  probe.phase = "deltas" =>
    /\ probe.deltasLocal = probe.deltas
    /\ probe.newMetersLocal = probe.newMeters

\* C10: if processing of a submitted round fails (the submit handler reaches
\* its catch branch), the GameState after the handler equals the GameState
\* before the submission in every field, lastAction included
C10_FailureKeepsState ==
  [][ (inflight # <<>> /\ lastRound'.outcome = "failed") =>
        gameState' = [inflight[1].body EXCEPT !.lastAction = inflight[1].lastActionBefore] ]_vars

\* C11: a submission whose trimmed text is empty, or with no action selected,
\* is rejected before any server request or offline engine call and leaves
\* GameState (lastAction and history included) unchanged
C11_RejectedKeepsState ==
  [][ lastRound'.outcome = "rejected" =>
        /\ gameState' = gameState
        /\ inflight = <<>> /\ inflight' = <<>>
        /\ submitDisabled' = submitDisabled
        /\ lastRound'.path = "none" ]_vars

\* a submission rejected in the middle of a game, after a resolved round
C11_Witness ==
  /\ lastRound.outcome = "rejected"
  /\ Len(gameState.history) >= 1
  /\ gameState.lastAction # "none"

\* C12: between the arrival of a result with an ending and the next restart,
\* no submission is accepted and the game state is not advanced again
C12_NoRoundAfterEnding ==
  [][ ((endingTimer > 0 \/ screen = "ending") /\ ~(screen = "ending" /\ screen' = "setup")) =>
        /\ ~(inflight = <<>> /\ inflight' # <<>>)
        /\ gameState'.round = gameState.round ]_vars

----------------------------------------------------------------------------
(* The narrative state machine on its own *)

\* new meters on both sides of the milestone thresholds, in points
NarrativeMeters ==
  [ growth : {45 * U, 46 * U, 61 * U, 76 * U},
    pr : {20 * U, 21 * U, 26 * U, 36 * U},
    funding : {55 * U, 61 * U, 71 * U, 86 * U},
    burnout : {31 * U, 39 * U, 54 * U, 55 * U},
    ethics : {55 * U, 56 * U} ]

\* stages the three tracks had reached before the round
PriorStages ==
  { [product |-> p, funding |-> f, team |-> t] :
      p \in 0..3, f \in {0, 2}, t \in {0, 3} }

NarrativeActions == {"Build", "Fundraise", "Hire", "PR"}

InitNarrative ==
  /\ Idle
  /\ probe \in [ phase : {"in"}, stages : PriorStages, meters : NarrativeMeters,
                 action : NarrativeActions ]

\* updateNarrativeState and updateNarrativeStateLocal on one input
NarrativeStep ==
  /\ probe.phase = "in"
  /\ LET prev == [getDefaultNarrative EXCEPT !.milestones = probe.stages]
         deltas == [k \in Channels |-> 0]
         nlp == [kind |-> "object", sentiment |-> 100, buzzword |-> 100,
                 feasibility |-> 100, source |-> "heuristic"]
     IN probe' = [ phase |-> "narrative", stages |-> probe.stages,
                   meters |-> probe.meters, action |-> probe.action,
                   result |-> updateNarrativeState(prev, deltas, probe.meters,
                                                   probe.action, nlp),
                   resultLocal |-> updateNarrativeStateLocal(prev, deltas, probe.meters,
                                                             probe.action, nlp) ]
  /\ UNCHANGED <<gameState, screen, submitDisabled, inflight, endingTimer, server, lastRound>>

NextNarrative == NarrativeStep

SpecNarrative == InitNarrative /\ [][NextNarrative]_vars

\* C13: the product track is moved to stage 3 in a round only if the stage-2
\* condition (growth>60 AND pr>20) holds for the round's new meters or the
\* track had already reached stage 2; never on growth>75 AND funding>60 alone
C13_ProductStage3NeedsStage2 ==
  probe.phase = "narrative" =>
    \A r \in {probe.result, probe.resultLocal} :
      (r.narrative.milestones.product = 3 /\ probe.stages.product < 3) =>
        \/ probe.stages.product >= 2
        \/ (probe.meters.growth > 60 * U /\ probe.meters.pr > 20 * U)

\* C14: updateNarrativeState returns exactly one change event for each track
\* whose stage increased, carrying the previous and the new stage, no event
\* for a track whose stage did not change, and an empty list when none rose
C14_OneEventPerRise ==
  probe.phase = "narrative" =>
    LET before == probe.stages
        after == probe.result.narrative.milestones
        ch == probe.result.changes
        risen == {id \in {"product", "funding", "team"} : after[id] > before[id]}
    IN /\ Len(ch) = Cardinality(risen)
       /\ \A i \in 1..Len(ch) :
            /\ ch[i].id \in risen
            /\ ch[i].previousStage = before[ch[i].id]
            /\ ch[i].stage = after[ch[i].id]
       /\ \A id \in risen : Cardinality({i \in 1..Len(ch) : ch[i].id = id}) = 1
       /\ (risen = {} => ch = <<>>)

\* one round takes the funding track from stage 0 to stage 3 and leaves the
\* team track, already at stage 3, without an event
C14_Witness ==
  /\ probe.phase = "narrative"
  /\ probe.stages.funding = 0 /\ probe.stages.team = 3
  /\ probe.result.narrative.milestones.funding = 3
  /\ \E i \in 1..Len(probe.result.changes) :
       /\ probe.result.changes[i].id = "funding"
       /\ probe.result.changes[i].previousStage = 0
       /\ probe.result.changes[i].stage = 3
  /\ \A i \in 1..Len(probe.result.changes) : probe.result.changes[i].id # "team"

\* the trait list with one trait taken out
Without(traits, t) == SelectSeq(traits, LAMBDA x : x # t)

\* C15: adding the Integrity trait changes only the ethics delta of
\* computeDeltas (halved when negative, unchanged otherwise); the growth,
\* burnout, pr and funding deltas are the same as without Integrity
C15_IntegrityOnlyEthics ==
  (probe.phase = "deltas" /\ includes(probe.traits, "Integrity")) =>
    LET gs == [DefaultState EXCEPT !.company = probe.company, !.meters = probe.meters,
                                   !.traits = Without(probe.traits, "Integrity")]
        plain == computeDeltas(probe.nlp, probe.action, gs)
        plainLocal == computeDeltasLocally(probe.nlp, probe.action, gs)
        same(with, wo) ==
          /\ \A k \in {"growth", "burnout", "pr", "funding"} : with[k] = wo[k]
          /\ with.ethics = IF wo.ethics < 0 THEN wo.ethics \div 2 ELSE wo.ethics
    IN same(probe.deltas, plain) /\ same(probe.deltasLocal, plainLocal)

\* the trait list read backwards
Reversed(traits) == [i \in 1..Len(traits) |-> traits[Len(traits) + 1 - i]]

\* C16: computeDeltas returns identical deltas for the trait list [a, b] and
\* the trait list [b, a], for every scores, action and company
C16_TraitOrderIrrelevant ==
  (probe.phase = "deltas" /\ Len(probe.traits) = 2) =>
    LET gs == [DefaultState EXCEPT !.company = probe.company, !.meters = probe.meters,
                                   !.traits = Reversed(probe.traits)]
    IN /\ probe.deltas = computeDeltas(probe.nlp, probe.action, gs)
       /\ probe.deltasLocal = computeDeltasLocally(probe.nlp, probe.action, gs)

\* {Resilience, Integrity} on a round where both traits act: a negative
\* ethics delta is halved and burnout is relieved
C16_Witness ==
  /\ probe.phase = "deltas"
  /\ probe.traits = <<"Resilience", "Integrity">>
  /\ probe.action = "Growth Hack"
  /\ probe.deltas.ethics < 0
  /\ probe.deltas # computeDeltas(probe.nlp, probe.action,
                                  [DefaultState EXCEPT !.company = probe.company])

\* C17: with industry Software, tech Software and no traits computeDeltas
\* returns the action's base vector plus the score modifiers; for Growth Hack
\* with scores 70, 80, 40 that is growth 18, ethics -11, burnout 13, pr -1,
\* funding 6.6
C17_BasePlusScoreModifiers ==
  ( /\ probe.phase = "deltas"
    /\ probe.company.industry = "Software" /\ probe.company.tech = "Software"
    /\ probe.traits = <<>> ) =>
    LET b == baseEffects(probe.action)
        s == probe.nlp.sentiment
        z == probe.nlp.buzzword
        f == probe.nlp.feasibility
        d == probe.deltas
    IN \* scores are in half points: (s/2 - 50) * 0.15 points = (s - 100) * 15 * U / 200
       /\ d.growth = b.growth + ((s - 100) * 15 * U) \div 200
       /\ d.pr = b.pr + ((s - 100) * 20 * U) \div 200
       /\ d.ethics = b.ethics - ((z - 100) * 10 * U) \div 200
       /\ d.funding = b.funding + ((f - 40) * 8 * U) \div 200
       /\ d.burnout = b.burnout + ((200 - f) * 5 * U) \div 200
       /\ (probe.action = "Growth Hack" /\ probe.nlp = ExampleScores) =>
            d = [growth |-> 18 * U, ethics |-> (0 - 11) * U, burnout |-> 13 * U,
                 pr |-> 0 - U, funding |-> (66 * U) \div 10]

C17_Witness ==
  /\ probe.phase = "deltas"
  /\ probe.company.industry = "Software" /\ probe.company.tech = "Software"
  /\ probe.traits = <<>>
  /\ probe.action = "Growth Hack" /\ probe.nlp = ExampleScores
  /\ probe.deltas.funding = (66 * U) \div 10

----------------------------------------------------------------------------
(* The server's heuristic scorer on its own *)

MaxTextLen == 300

MaxBuzz == 7

\* what the scorer reads of a text: its length, the jargon matches, a numeral.
\* A match takes two characters at least and a word boundary between matches,
\* a numeral one character and a boundary.
ProbeTextInfos ==
  { t \in [len : 0..MaxTextLen, buzz : 0..MaxBuzz, hasNumbers : BOOLEAN] :
      t.len >= (IF t.buzz > 0 THEN 3 * t.buzz - 1 ELSE 0)
               + (IF t.hasNumbers THEN (IF t.buzz > 0 THEN 2 ELSE 1) ELSE 0) }

InitHeuristic ==
  /\ Idle
  /\ probe \in [ phase : {"in"}, info : ProbeTextInfos ]

HeuristicStep ==
  /\ probe.phase = "in"
  /\ probe' = [ phase |-> "heuristic", info |-> probe.info,
                result |-> heuristicScoresOf(probe.info) ]
  /\ UNCHANGED <<gameState, screen, submitDisabled, inflight, endingTimer, server, lastRound>>

NextHeuristic == HeuristicStep

SpecHeuristic == InitHeuristic /\ [][NextHeuristic]_vars

\* C18: heuristicScores returns sentiment = round(35 + 40*min(len/280, 1)),
\* buzzword = min(20 + 15*count, 85) and feasibility = clamp(hasNumbers ?
\* 70 - 5*count : 55 - 10*count, 30, 95), each within [0,100], with source
\* 'heuristic'; the empty text gets sentiment 35, buzzword 20, feasibility 55
C18_HeuristicFormula ==
  probe.phase = "heuristic" =>
    LET len == probe.info.len
        count == probe.info.buzz
        r == probe.result
        raw == IF probe.info.hasNumbers THEN 70 - 5 * count ELSE 55 - 10 * count
        \* scores are kept in half points
        half(x) == x \div 2
    IN /\ \A k \in {"sentiment", "buzzword", "feasibility"} :
            r[k] % 2 = 0 /\ half(r[k]) >= 0 /\ half(r[k]) <= 100
       \* the integer nearest to 35 + len/7, or 75 from 280 characters on
       /\ IF len >= 280 THEN half(r.sentiment) = 75
          ELSE /\ 2 * (7 * (half(r.sentiment) - 35) - len) <= 7
               /\ 2 * (len - 7 * (half(r.sentiment) - 35)) < 7
       /\ half(r.buzzword) = (IF 20 + 15 * count <= 85 THEN 20 + 15 * count ELSE 85)
       /\ half(r.feasibility) = (IF raw < 30 THEN 30 ELSE IF raw > 95 THEN 95 ELSE raw)
       /\ r.source = "heuristic"
       /\ (len = 0 => /\ half(r.sentiment) = 35 /\ half(r.buzzword) = 20
                      /\ half(r.feasibility) = 55
                      /\ r = heuristicScores(""))

\* a long text with five jargon words and no numeral: the sentiment ceiling,
\* the buzzword cap and the feasibility floor all apply
C18_Witness ==
  /\ probe.phase = "heuristic"
  /\ probe.info.len > 280 /\ probe.info.buzz = 5 /\ ~probe.info.hasNumbers
  /\ probe.result.sentiment = 150
  /\ probe.result.buzzword = 170
  /\ probe.result.feasibility = 60

\* C19: every resolved round appends exactly one record to the end of
\* history and leaves the records before it as they were; no other step of a
\* game writes to history; the one write to a pushed record is the
\* random-event annotation (title and post-event meters) of the last record,
\* made by the handler run that pushed it
C19_HistoryAppendOnly ==
  [][ LET h == gameState.history
          h2 == gameState'.history
          n == Len(h)
          resolved == inflight # <<>> /\ inflight' = <<>>
      IN IF resolved
         THEN /\ Len(h2) = n + 1
              /\ SubSeq(h2, 1, n) = h
              /\ IF lastRound'.event # 0
                 THEN /\ h2[n + 1].randomEvent = RANDOM_EVENTS[lastRound'.event].title
                      /\ h2[n + 1].meters = gameState'.meters
                 ELSE h2[n + 1].randomEvent = "none"
         ELSE \/ h2 = h
              \* the restart click begins a new game with a new, empty history
              \/ screen = "ending" /\ screen' = "setup" /\ h2 = <<>> ]_vars

\* the states the commit of lines 193-210 can produce for the request in flight
CommittedStates ==
  LET req == inflight[1]
      answered == { processRound(req.text, req.action, req.body, server,
                                 g.analysis, FALSE, g.npcNull) : g \in GameAnswers }
  IN { commitResult(r, req.text, req.action) : r \in {x \in answered : x.ok} }
     \cup { commitResult(simulateOfflineRound(req.text, req.action, gameState),
                         req.text, req.action) }

\* C20: a random event is applied only in the handler run that resolves a
\* round, after the result is committed and its record pushed, once, never
\* while a request is in flight and never when the result carries an ending
C20_EventAfterCommit ==
  [][ LET resolved == inflight # <<>> /\ inflight' = <<>>
          e == lastRound'.event
      IN /\ e # 0 =>
              /\ resolved
              /\ lastRound'.outcome = "committed"
              /\ lastRound'.ending = "none"
              /\ endingTimer' = endingTimer
              /\ \E c \in CommittedStates :
                   LET n == Len(c.history)
                   IN /\ c.history[n].randomEvent = "none"
                      /\ c.history[n].round = c.round - 1
                      /\ gameState'.meters = applyEffects(c.meters, RANDOM_EVENTS[e].effects)
                      /\ gameState'.history =
                           [c.history EXCEPT ![n].randomEvent = RANDOM_EVENTS[e].title,
                                             ![n].meters = gameState'.meters]
                      /\ gameState'.round = c.round
         \* a resolving step without an event leaves the committed state as it is
         /\ (resolved /\ e = 0) => gameState' \in CommittedStates
         \* no other step touches the meters, but for the reset of a restart
         /\ ~resolved =>
              \/ gameState'.meters = gameState.meters
              \/ screen = "ending" /\ screen' = "setup" ]_vars

\* a server round resolved without an ending, an event drawn and recorded
C20_Witness ==
  /\ lastRound.event # 0
  /\ lastRound.outcome = "committed"
  /\ lastRound.path = "server"
  /\ Len(gameState.history) >= 1
  /\ gameState.history[Len(gameState.history)].randomEvent = RANDOM_EVENTS[lastRound.event].title
  /\ gameState.history[Len(gameState.history)].meters = gameState.meters

\* C21: at no time are two rounds of the page in flight: from the start of
\* a valid submission's request until its handler has finished, no second
\* submission starts
C21_OneRoundInFlight ==
  /\ Len(inflight) <= 1
  /\ inflight # <<>> => submitDisabled

\* a later round of a game in flight, the earlier one resolved and recorded
C21_Witness ==
  /\ Len(inflight) = 1
  /\ submitDisabled
  /\ screen = "game"
  /\ Len(gameState.history) >= 1

\* C22: after any sequence of rounds from the default narrative, through
\* the server or the offline simulator, vcMood and employeeMorale are each
\* a number of [-10, 10]
C22_MoodsInRange ==
  \A k \in {"vcMood", "employeeMorale"} :
    /\ IsNumber(gameState.narrative.npc[k])
    /\ gameState.narrative.npc[k] >= (0 - 10) * U
    /\ gameState.narrative.npc[k] <= 10 * U

----------------------------------------------------------------------------
(* A whole game in the canonical flow: the player keeps to one action,      *)
(* waits for each result, and stops submitting once a result carries an     *)
(* ending.                                                                  *)

\* no submission is explored from this round on
MaxLongRound == 27

\* departures from the plain server round in one game: rounds resolved by
\* the offline simulator, and random events drawn
MaxDetours == 2

\* the primary model's answer in these games: the prompt's example scores
LongAnswer == Answer("object", 130, 60, 160)

\* Math.random draws: no event, or 'Production fire drill'
LongEventDraws == {0, 2}

\* offline rounds and random events of the game so far
Detours(history) ==
  Cardinality({i \in 1..Len(history) : history[i].analysisSource = "offline"})
    + Cardinality({i \in 1..Len(history) : history[i].randomEvent # "none"})

InitLong ==
  /\ gameState = [DefaultState EXCEPT
                    !.company = [name |-> "StartupCo", industry |-> "Software",
                                 tech |-> "Software"],
                    !.traits = <<"Ambition", "Integrity">>]
  /\ screen = "game"
  /\ submitDisabled = FALSE
  /\ inflight = <<>>
  /\ endingTimer = 0
  /\ server = [modelAvailable |-> TRUE, allowFallback |-> TRUE]
  /\ lastRound = NoRound
  /\ probe \in [action : Actions]

\* submitRound click of a player who has seen no ending yet
LongSubmit ==
  /\ screen = "game" /\ ~submitDisabled
  /\ endingTimer = 0
  /\ gameState.round < MaxLongRound
  /\ gameState' = [gameState EXCEPT !.lastAction = probe.action]
  /\ inflight' = Append(inflight, [text |-> "plain", action |-> probe.action,
                                   body |-> gameState',
                                   lastActionBefore |-> gameState.lastAction])
  /\ submitDisabled' = TRUE
  /\ lastRound' = NoRound
  /\ UNCHANGED <<screen, endingTimer, server, probe>>

\* a random event may be drawn for this round
LongDraw(event, result) ==
  event # 0 =>
    /\ result.ending = "none"
    /\ Detours(gameState.history) < MaxDetours

LongServerRound ==
  /\ inflight # <<>>
  /\ \E event \in LongEventDraws :
       LET req == inflight[1]
           result == processRound(req.text, req.action, req.body, server,
                                  LongAnswer, FALSE, FALSE)
       IN /\ LongDraw(event, result)
          /\ Continue(req, result, "server", "none", event)

LongOfflineRound ==
  /\ inflight # <<>>
  /\ Detours(gameState.history) < MaxDetours
  /\ \E event \in LongEventDraws :
       LET req == inflight[1]
           result == simulateOfflineRound(req.text, req.action, gameState)
       IN /\ LongDraw(event, result)
          /\ event # 0 => Detours(gameState.history) + 1 < MaxDetours
          /\ Continue(req, result, "offline", "network", event)

NextLong ==
  \/ LongSubmit
  \/ LongServerRound
  \/ LongOfflineRound
  \/ ShowEnding

SpecLong == InitLong /\ [][NextLong]_vars

\* C23: after every resolved round the scene log holds at most 12 entries,
\* its last entry is that round's scene card, and when the log was full the
\* entry evicted is the oldest one, the others keeping their order
C23_SceneLogFifo ==
  [][ (inflight # <<>> /\ inflight' = <<>>) =>
        LET log == gameState.narrative.sceneLog
            log2 == gameState'.narrative.sceneLog
            n == Len(log)
        IN /\ Len(log2) <= 12
           /\ Len(log2) >= 1
           /\ log2[Len(log2)].round = gameState.round
           /\ log2[Len(log2)].source = (IF lastRound'.path = "offline" THEN "offline"
                                        ELSE "gemini")
           /\ IF n < 12
              THEN /\ Len(log2) = n + 1
                   /\ \A i \in 1..n : log2[i] = log[i]
              ELSE /\ Len(log2) = 12
                   /\ \A i \in 1..11 : log2[i] = log[i + 1] ]_vars

\* the log was full before the round and the oldest card has left it
C23_Witness ==
  /\ lastRound.outcome = "committed"
  /\ gameState.round >= 15
  /\ Len(gameState.narrative.sceneLog) = 12
  /\ gameState.narrative.sceneLog[1].round = gameState.round - 12
  /\ gameState.narrative.sceneLog[12].round = gameState.round - 1

\* C24: between setup and restart every resolved round, through the server
\* or through the offline simulator, leaves the company profile (name,
\* industry, tech) and the two traits of the game state unchanged
C24_ProfileImmutable ==
  [][ (inflight # <<>> /\ inflight' = <<>> /\ screen = "game") =>
        /\ gameState'.company = gameState.company
        /\ gameState'.traits = gameState.traits ]_vars

----------------------------------------------------------------------------
(* Phase titles *)

\* gameLogic.js lines 1-11
PHASE_TITLES ==
  << "Week 1: Gloomy Monday", "Week 2: Scrappy Tuesday", "Week 3: Pivot Wednesday",
     "Week 4: Hump Day Hustle", "Week 5: Throwback Thursday", "Week 6: Feature Friday",
     "Week 7: Sprint Saturday", "Week 8: Sunday Scaries", "Week 9: Momentum Monday",
     "Week 10: Tech Debt Tuesday", "Week 11: Wireframe Wednesday", "Week 12: Demo Thursday",
     "Week 13: Fundraise Friday", "Week 14: Burnout Saturday", "Week 15: Recovery Sunday",
     "Week 16: Metrics Monday", "Week 17: Press Tuesday", "Week 18: Hiring Wednesday",
     "Week 19: Scale Thursday", "Week 20: Crunch Friday", "Week 21: All-Hands Saturday",
     "Week 22: Reflect Sunday", "Week 23: Final Push Monday", "Week 24: Last Mile Tuesday",
     "Week 25: Demo Day Eve", "Week 26: Judgment Day" >>

\* part_000 lines 637-647, the client's copy
PHASE_TITLES_LOCAL ==
  << "Week 1: Gloomy Monday", "Week 2: Scrappy Tuesday", "Week 3: Pivot Wednesday",
     "Week 4: Hump Day Hustle", "Week 5: Throwback Thursday", "Week 6: Feature Friday",
     "Week 7: Sprint Saturday", "Week 8: Sunday Scaries", "Week 9: Momentum Monday",
     "Week 10: Tech Debt Tuesday", "Week 11: Wireframe Wednesday", "Week 12: Demo Thursday",
     "Week 13: Fundraise Friday", "Week 14: Burnout Saturday", "Week 15: Recovery Sunday",
     "Week 16: Metrics Monday", "Week 17: Press Tuesday", "Week 18: Hiring Wednesday",
     "Week 19: Scale Thursday", "Week 20: Crunch Friday", "Week 21: All-Hands Saturday",
     "Week 22: Reflect Sunday", "Week 23: Final Push Monday", "Week 24: Last Mile Tuesday",
     "Week 25: Demo Day Eve", "Week 26: Judgment Day" >>

\* an array element by its JavaScript index, from 0
At(arr, i) == arr[i + 1]

\* the label looked up by the round itself, without the step back to index 0
getPhaseTitleByRound(round) == At(PHASE_TITLES, Min2(round, Len(PHASE_TITLES) - 1))

getPhaseTitle(round) == At(PHASE_TITLES, Min2(round - 1, Len(PHASE_TITLES) - 1))

getPhaseTitleLocal(round) == At(PHASE_TITLES_LOCAL, Min2(round - 1, Len(PHASE_TITLES_LOCAL) - 1))

MaxPhaseRound == 120

InitPhase ==
  /\ Idle
  /\ probe \in [ phase : {"in"}, round : 1..MaxPhaseRound ]

PhaseStep ==
  /\ probe.phase = "in"
  /\ probe' = [ phase |-> "title", round |-> probe.round,
                title |-> getPhaseTitle(probe.round),
                titleLocal |-> getPhaseTitleLocal(probe.round) ]
  /\ UNCHANGED <<gameState, screen, submitDisabled, inflight, endingTimer, server, lastRound>>

NextPhase == PhaseStep

SpecPhase == InitPhase /\ [][NextPhase]_vars

\* C25: for every round >= 1, getPhaseTitle(round) is the entry at index
\* min(round-1, 25) of the table of 26 labels: "Week 1: Gloomy Monday" for
\* round 1, "Week 26: Judgment Day" for round 26 and for every round above
C25_PhaseTitle ==
  probe.phase = "title" =>
    /\ Len(PHASE_TITLES) = 26
    /\ \A i, j \in 1..26 : i # j => PHASE_TITLES[i] # PHASE_TITLES[j]
    /\ \E i \in 1..26 :
         /\ i - 1 = (IF probe.round - 1 < 25 THEN probe.round - 1 ELSE 25)
         /\ probe.title = PHASE_TITLES[i]
    /\ probe.round = 1 => probe.title = "Week 1: Gloomy Monday"
    /\ probe.round >= 26 => probe.title = "Week 26: Judgment Day"
    /\ probe.titleLocal = probe.title

\* a round far above 26 that still shows the last label
C25_Witness ==
  /\ probe.phase = "title"
  /\ probe.round = 40
  /\ probe.title = "Week 26: Judgment Day"

----------------------------------------------------------------------------
(* The game math of one server round, for a score triple and its tag *)

\* part_002 lines 33-48: deltas, new meters, ending, narrative state
roundMath(nlp, action, gs) ==
  LET deltas == computeDeltas(nlp, action, gs)
      newMeters == applyDeltas(deltas, gs)
      newRound == gs.round + 1
      un == updateNarrativeState(gs.narrative, deltas, newMeters, action, nlp)
  IN [ deltas |-> deltas, newMeters |-> newMeters,
       ending |-> checkEnding(newMeters, newRound),
       npc |-> un.narrative.npc, milestones |-> un.narrative.milestones ]

SourceTags == {"gemini", "heuristic", "offline"}

SourceTraits == { <<"Ambition", "Integrity">>, <<"Resilience", "Critical Thinking">>,
                  <<"Charisma", "Ambition">> }

InitSource ==
  /\ Idle
  /\ probe \in [ phase : {"in"}, nlp : ProbeScores, tags : SourceTags \X SourceTags,
                 action : Actions, traits : SourceTraits, meters : ProbeMeters,
                 round : {1, 25} ]
  /\ probe.tags[1] # probe.tags[2]

\* the same round computed for the triple under two different tags
SourceStep ==
  /\ probe.phase = "in"
  /\ LET gs == [DefaultState EXCEPT !.traits = probe.traits, !.meters = probe.meters,
                                    !.round = probe.round]
         tagged(t) == [probe.nlp EXCEPT !.source = t]
     IN probe' = [ phase |-> "source", nlp |-> probe.nlp, tags |-> probe.tags,
                   action |-> probe.action, traits |-> probe.traits,
                   meters |-> probe.meters, round |-> probe.round,
                   first |-> roundMath(tagged(probe.tags[1]), probe.action, gs),
                   second |-> roundMath(tagged(probe.tags[2]), probe.action, gs) ]
  /\ UNCHANGED <<gameState, screen, submitDisabled, inflight, endingTimer, server, lastRound>>

NextSource == SourceStep

SpecSource == InitSource /\ [][NextSource]_vars

\* C26: the source tag of a score triple never influences game math: two
\* rounds from the same state with the same text, action and scores but
\* different tags give identical deltas, new meters, ending, mood indices and
\* milestone stages
C26_SourceTagIgnored ==
  probe.phase = "source" =>
    /\ probe.first.deltas = probe.second.deltas
    /\ probe.first.newMeters = probe.second.newMeters
    /\ probe.first.ending = probe.second.ending
    /\ probe.first.npc = probe.second.npc
    /\ probe.first.milestones = probe.second.milestones

\* a round whose scores move the meters, computed under 'gemini' and 'heuristic'
C26_Witness ==
  /\ probe.phase = "source"
  /\ probe.tags = <<"gemini", "heuristic">>
  /\ probe.nlp.sentiment = 200
  /\ probe.first.deltas.growth # baseEffects(probe.action).growth
  /\ probe.first.newMeters # probe.meters

\* C27: whenever a resolved round together with its random event leaves
\* burnout above 80 at the rest point, that round has reported the Collapse
\* ending; the game never waits for the next update with burnout > 80 and
\* no ending
C27_CollapseReported ==
  ( /\ lastRound.outcome = "committed"
    /\ inflight = <<>>
    /\ IsNumber(gameState.meters.burnout)
    /\ gameState.meters.burnout > 80 * U ) => lastRound.ending = "Collapse"

\* C28: after a restart the game state equals the setup defaults and stays
\* so until the next setup or submission; a result of a round submitted
\* before the restart is never committed to the state after the restart
C28_RestartResets ==
  [][ /\ (screen = "ending" /\ screen' = "setup") => gameState' = DefaultState
      /\ screen' = "setup" => gameState' = DefaultState
      /\ (inflight # <<>> /\ inflight' = <<>>) => inflight[1].body = gameState ]_vars

----------------------------------------------------------------------------
(* One orchestrated round, server and offline, from a state of the game *)

\* answers of the primary model: the example scores, a feasibility far
\* below the range, an object without feasibility, an object without sentiment
RoundAnswers ==
  { Answer("object", 130, 60, 160), Answer("object", 130, 60, -2000),
    Answer("object", 130, 60, Undef), Answer("object", Undef, 60, 0) }

\* funding from empty to full, the other meters at their defaults
RoundMeters == { [DefaultMeters EXCEPT !.funding = f * U] : f \in {0, 5, 50, 100} }

InitRound ==
  /\ Idle
  /\ probe \in [ phase : {"in"}, answer : RoundAnswers, action : Actions,
                 traits : SourceTraits, meters : RoundMeters, round : {1, 25} ]

\* the server's game math on the scorer's answer, and the offline simulator
RoundStep ==
  /\ probe.phase = "in"
  /\ LET gs == [DefaultState EXCEPT !.traits = probe.traits, !.meters = probe.meters,
                                    !.round = probe.round]
         nlp == analyzeUpdate("plain", probe.answer, server).value
         offline == simulateOfflineRound("plain", probe.action, gs)
     IN probe' = [ phase |-> "round", answer |-> probe.answer, action |-> probe.action,
                   traits |-> probe.traits, meters |-> probe.meters, round |-> probe.round,
                   math |-> roundMath(nlp, probe.action, gs),
                   offlineMeters |-> offline.newState.meters,
                   offlineEnding |-> offline.ending ]
  /\ UNCHANGED <<gameState, screen, submitDisabled, inflight, endingTimer, server, lastRound>>

NextRound == RoundStep

SpecRound == InitRound /\ [][NextRound]_vars

\* C29: in the orchestrated round flow, server and offline, the Bankruptcy
\* ending is never returned: the funding value passed to the ending check
\* has been clamped by the meter applier and is always >= 0
C29_NoBankruptcy ==
  probe.phase = "round" =>
    /\ probe.math.ending # "Bankruptcy"
    /\ probe.offlineEnding # "Bankruptcy"
    /\ IsNumber(probe.math.newMeters.funding) /\ probe.math.newMeters.funding >= 0
    /\ IsNumber(probe.offlineMeters.funding) /\ probe.offlineMeters.funding >= 0

\* C30: the ending is evaluated with the incremented round, so a game
\* started at round 1 and played in the canonical flow produces an ending no
\* later than its 25th resolved round (the one submitted with round 25), and
\* no round is ever submitted with round 26
C30_EndsByRound25 ==
  [][ /\ (inflight # <<>> /\ inflight' = <<>> /\ inflight[1].body.round = 25) =>
           /\ lastRound'.ending # "none"
           /\ endingTimer' = endingTimer + 1
      /\ inflight' # <<>> => inflight'[1].body.round <= 25
      /\ gameState'.round <= 26
      /\ Len(gameState'.history) <= 25 ]_vars

\* a game that went the whole distance: 25 records, the final ending reported
C30_Witness ==
  /\ Len(gameState.history) = 25
  /\ gameState.round = 26
  /\ lastRound.outcome = "committed"
  /\ lastRound.ending \notin {"none", "Collapse", "Bankruptcy"}
  /\ endingTimer = 1

====
